---- MODULE Spec2Model ----
(***************************************************************************)
(* MDAnalysis.coordinates.base: the Timestep container and the IObase /    *)
(* Reader / Writer base classes, as state machines.                        *)
(*                                                                         *)
(* numpy arrays are objects on a heap (a sequence; an array's id is its    *)
(* index), so that sharing and copying of buffers are visible.  A Timestep *)
(* holds the ids of its _pos and _unitcell arrays.                         *)
(***************************************************************************)
EXTENDS Integers, Sequences, FiniteSets, TLC

VARIABLES
    frames,     \* the Timestep objects, in the order they were built
    heap,       \* the numpy arrays the Timesteps hold
    shadow,     \* per Timestep, what it should hold: its contents when built, then after each write made to it
    ret,        \* the last Timestep call and what it returned or raised
    writes,     \* in-place writes made so far
    io,         \* an IObase instance: its units and the process-wide flags
    arrays,     \* the coordinate arrays handed to the conversions
    tval,       \* the time value the caller holds
    ulog,       \* the conversion calls made, each with its argument before and after
    reader,     \* a Reader over a trajectory
    rlog,       \* the Reader calls made and their outcomes
    writer,     \* a Writer and the resource it holds
    wret        \* the last Writer call and its outcome

tsvars == <<frames, heap, shadow, ret, writes>>

iovars == <<io, arrays, tval, ulog>>

rdvars == <<reader, rlog>>

wrvars == <<writer, wret>>

vars == <<frames, heap, shadow, ret, writes, io, arrays, tval, ulog, reader, rlog, writer, wret>>

\* ------------------------------------------------------------------ bounds

\* Largest atom count passed to Timestep(numatoms).
MaxAtoms == 2

\* Number of Timestep objects in one run: the first and its copies.
MaxFrames == 2

\* Number of in-place mutations of a Timestep's buffers in one run.
MaxWrites == 2

\* Number of unit conversions called in one run.
MaxCalls == 2

\* Largest number of frames in the Reader's trajectory.
MaxNumframes == 3

\* Number of Reader calls in one run.
MaxReaderCalls == 6

\* Number of frames written to a Writer in one run.
MaxWritten == 5

\* Number of explicit close calls on a Writer in one run.
MaxCloses == 2

\* ------------------------------------------------------------ numpy arrays

\* A row of n zeros.
ZeroRow(n) == [j \in 1..n |-> 0]

\* numpy.zeros((r, c)): a 2-D array of zeros.
numpy_zeros2(r, c) == [shape |-> <<r, c>>, data |-> [i \in 1..r |-> ZeroRow(c)]]

\* numpy.zeros((6)): the unit cell.
numpy_zeros1(n) == [shape |-> <<n>>, data |-> ZeroRow(n)]

\* A new array object on the heap; its id is its index.
Alloc(h, arr) == [heap |-> Append(h, arr), id |-> Len(h) + 1]

\* numpy.array(a) and a.copy(): a new array object with the same contents.
numpy_array(h, id) == Alloc(h, h[id])

\* Shapes of the external buffers handed to Timestep(ndarray): one, two and
\* three dimensions; fewer than three, three and more than three columns;
\* fewer than three, three and more than three rows.
MatrixShapes == {<<3>>, <<2, 2>>, <<2, 3>>, <<3, 3>>, <<3, 4>>, <<4, 3>>, <<2, 3, 3>>}

\* The contents of an external 2-D buffer: every element distinct.
MatrixData(r, c) == [i \in 1..r |-> [j \in 1..c |-> (i - 1) * c + j]]

\* An external numpy array of the given shape.
Ndarray(shape) == [type |-> "ndarray", shape |-> shape,
    data |-> IF Len(shape) = 2 THEN MatrixData(shape[1], shape[2]) ELSE <<>>]

\* ---------------------------------------------------------------- Timestep

Raise(exc, h) == [kind |-> exc, heap |-> h, ts |-> <<>>]

\* self._pos[:,j]: a view of column j (0-based) of the buffer; numpy raises
\* IndexError when the buffer has no such column.
ColumnView(h, id, j) ==
    IF j < h[id].shape[2]
    THEN [kind |-> "ok", base |-> id, col |-> j]
    ELSE [kind |-> "IndexError", base |-> id, col |-> j]

\* Timestep(numatoms) with the buffer laid out (3, numatoms), the layout of
\* the line commented out at line 40.
InitByAtomCount_Transposed(n, h) ==
    IF n < 0
    THEN Raise("ValueError", h)
    ELSE LET p == Alloc(h, numpy_zeros2(3, n))
             u == Alloc(p.heap, numpy_zeros1(6))
         IN [kind |-> "ok", heap |-> u.heap,
             ts |-> [frame |-> 0, numatoms |-> n, _pos |-> p.id, _unitcell |-> u.id]]

\* Lines 36-41: Timestep(numatoms).
InitByAtomCount(n, h) ==
    IF n < 0
    THEN Raise("ValueError", h)          \* numpy.zeros refuses a negative dimension
    ELSE LET p == Alloc(h, numpy_zeros2(n, 3))
             u == Alloc(p.heap, numpy_zeros1(6))
         IN [kind |-> "ok", heap |-> u.heap,
             ts |-> [frame |-> 0, numatoms |-> n, _pos |-> p.id, _unitcell |-> u.id]]

\* The copy constructor with the buffers shared instead of copied.
InitByCopyAliased(src, h) ==
    [kind |-> "ok", heap |-> h,
     ts |-> [frame |-> src.frame, numatoms |-> src.numatoms,
             _pos |-> src._pos, _unitcell |-> src._unitcell]]

\* Lines 42-47: Timestep(other), the copy constructor.
InitByCopy(src, h) ==
    LET u == numpy_array(h, src._unitcell)
        p == numpy_array(u.heap, src._pos)
    IN [kind |-> "ok", heap |-> p.heap,
        ts |-> [frame |-> src.frame, numatoms |-> src.numatoms,
                _pos |-> p.id, _unitcell |-> u.id]]

\* Lines 48-54: Timestep(ndarray).
InitByMatrix(arg, h) ==
    IF Len(arg.shape) # 2
    THEN Raise("ValueError", h)
    ELSE LET u == Alloc(h, numpy_zeros1(6))
             n == IF arg.shape[1] = 3 THEN arg.shape[1] ELSE arg.shape[2]
             p == Alloc(u.heap, [shape |-> arg.shape, data |-> arg.data])
         IN [kind |-> "ok", heap |-> p.heap,
             ts |-> [frame |-> 0, numatoms |-> n, _pos |-> p.id, _unitcell |-> u.id]]

\* Lines 35-58: Timestep.__init__, by the type of its argument, then the
\* three column views _x, _y, _z.
Timestep__init__(arg, h) ==
    LET r == CASE arg.type = "int" -> InitByAtomCount(arg.val, h)
               [] arg.type = "Timestep" -> InitByCopy(arg.ts, h)
               [] arg.type = "ndarray" -> InitByMatrix(arg, h)
               [] OTHER -> Raise("ValueError", h)
    IN IF r.kind # "ok" THEN r
       ELSE LET x == ColumnView(r.heap, r.ts._pos, 0)
                y == ColumnView(r.heap, r.ts._pos, 1)
                z == ColumnView(r.heap, r.ts._pos, 2)
            IN IF x.kind # "ok" \/ y.kind # "ok" \/ z.kind # "ok"
               THEN Raise("IndexError", h)
               ELSE [r EXCEPT !.ts = [frame |-> r.ts.frame, numatoms |-> r.ts.numatoms,
                                      _pos |-> r.ts._pos, _unitcell |-> r.ts._unitcell,
                                      _x |-> x, _y |-> y, _z |-> z]]

\* What a Timestep holds: its fields with the contents of its two buffers.
Content(ts, h) ==
    [frame |-> ts.frame, numatoms |-> ts.numatoms,
     pos |-> h[ts._pos].data, shape |-> h[ts._pos].shape, unitcell |-> h[ts._unitcell].data]

\* -------------------------------------------------------- Timestep queries

Result(kind, value) == [kind |-> kind, value |-> value]

\* a[k] for an int k >= 0 on a 2-D array: row k, or numpy's IndexError.
numpy_row(arr, k) ==
    IF k >= arr.shape[1] THEN Result("IndexError", <<>>) ELSE Result("ok", arr.data[k + 1])

\* slice.indices(len) for a positive step; an absent bound is <<>>, a given
\* one is <<k>>.
SliceBound(b, len, dflt) ==
    IF b = <<>> THEN dflt
    ELSE IF b[1] < 0 THEN (IF b[1] + len < 0 THEN 0 ELSE b[1] + len)
    ELSE IF b[1] > len THEN len ELSE b[1]

\* The row numbers (0-based, ascending) a[start:stop:step] selects.
SliceRows(sl, len) ==
    LET lo == SliceBound(sl.start, len, 0)
        hi == SliceBound(sl.stop, len, len)
        st == IF sl.step = <<>> THEN 1 ELSE sl.step[1]
        cnt == IF hi <= lo THEN 0 ELSE (hi - lo + st - 1) \div st
    IN [k \in 1..cnt |-> lo + (k - 1) * st]

\* a[slice]: the selected rows.
numpy_slice(arr, sl) ==
    LET rows == SliceRows(sl, arr.shape[1])
    IN Result("ok", [k \in 1..Len(rows) |-> arr.data[rows[k] + 1]])

\* a[index array]: the rows named, negative numbers counting from the end;
\* IndexError if one is out of bounds.
numpy_fancy(arr, idx) ==
    LET n == arr.shape[1]
    IN IF \E k \in 1..Len(idx) : idx[k] < -n \/ idx[k] >= n
       THEN Result("IndexError", <<>>)
       ELSE Result("ok", [k \in 1..Len(idx) |->
                arr.data[(IF idx[k] < 0 THEN idx[k] + n ELSE idx[k]) + 1]])

\* Lines 59-68: Timestep.__getitem__.
Timestep__getitem__(ts, h, atoms) ==
    IF atoms.type = "int"
    THEN LET a == IF atoms.val < 0 THEN ts.numatoms + atoms.val ELSE atoms.val
         IN IF a < 0 \/ a >= ts.numatoms
            THEN Result("IndexError", <<>>)
            ELSE numpy_row(h[ts._pos], a)
    ELSE IF atoms.type = "slice" THEN numpy_slice(h[ts._pos], atoms)
    ELSE IF atoms.type = "ndarray" THEN numpy_fancy(h[ts._pos], atoms.idx)
    ELSE Result("TypeError", <<>>)

\* Lines 69-70: Timestep.__len__.
Timestep__len__(ts) == ts.numatoms

\* The generator of lines 72-74 from atom i on: the items it yields before it
\* ends or self[i] raises.
RECURSIVE iterTS(_, _, _)
iterTS(ts, h, i) ==
    IF i >= ts.numatoms THEN Result("ok", <<>>)
    ELSE LET item == Timestep__getitem__(ts, h, [type |-> "int", val |-> i])
         IN IF item.kind # "ok" THEN Result(item.kind, <<>>)
            ELSE LET rest == iterTS(ts, h, i + 1)
                 IN Result(rest.kind, <<item.value>> \o rest.value)

\* Lines 71-75: Timestep.__iter__, run to its end.
Timestep__iter__(ts, h) == iterTS(ts, h, 0)

\* numpy.take(a, indices) on a 1-D array: a new array, indices 0-based.
numpy_take(data, indices) == [k \in 1..Len(indices) |-> data[indices[k] + 1]]

\* The unit cell returned in its storage order.
dimensionsStorageOrder(ts, h) == h[ts._unitcell].data

\* Lines 84-88: Timestep.dimensions.
dimensions(ts, h) == numpy_take(h[ts._unitcell].data, <<0, 2, 5, 1, 3, 4>>)

\* ------------------------------------------------------------ state machine

InitTimestep ==
    /\ frames = <<>>
    /\ heap = <<>>
    /\ shadow = <<>>
    /\ writes = 0
    /\ ret = [op |-> "none", f |-> 0, arg |-> <<>>, kind |-> "ok", value |-> <<>>]

\* A constructor call: the new object exists only if __init__ returned.
Construct(op, arg, shown) ==
    /\ LET r == Timestep__init__(arg, heap)
       IN /\ heap' = r.heap
          /\ frames' = IF r.kind = "ok" THEN Append(frames, r.ts) ELSE frames
          /\ shadow' = IF r.kind = "ok"
                       THEN Append(shadow,
                                IF arg.type = "Timestep" THEN Content(arg.ts, heap)
                                ELSE Content(r.ts, r.heap))
                       ELSE shadow
          /\ ret' = [op |-> op, f |-> IF r.kind = "ok" THEN Len(frames) + 1 ELSE 0,
                     arg |-> shown, kind |-> r.kind, value |-> <<>>]
    /\ UNCHANGED <<writes, iovars, rdvars, wrvars>>

\* Arguments of Timestep(arg) that are not a Timestep or an ndarray: ints,
\* floats (as <<numerator, denominator>>) and a string.
ScalarArgs ==
    {[type |-> "int", val |-> n] : n \in -1..MaxAtoms}
    \cup {[type |-> "float", val |-> q] : q \in {<<5, 2>>, <<2, 1>>}}
    \cup {[type |-> "str", val |-> "abc"]}

\* Timestep(arg) for a scalar.  A run follows one Timestep built from scratch
\* and the copies made of it and of its copies: Timesteps built separately
\* share nothing.
new_by_atom_count ==
    /\ frames = <<>>
    /\ \E arg \in ScalarArgs : Construct("new_by_atom_count", arg, arg)

\* Timestep(ndarray).
new_from_matrix ==
    /\ frames = <<>>
    /\ \E s \in MatrixShapes : Construct("new_from_matrix", Ndarray(s), s)

\* Timestep(f), the copy constructor, which is also what f.copy() calls, by
\* __deepcopy__ (lines 78-82).
copy ==
    /\ Len(frames) < MaxFrames
    /\ \E f \in DOMAIN frames :
        Construct("copy", [type |-> "Timestep", ts |-> frames[f]], f)

\* A call that reads Timestep f and returns.
Query(op, f, arg, r) ==
    /\ ret' = [op |-> op, f |-> f, arg |-> arg, kind |-> r.kind, value |-> r.value]
    /\ UNCHANGED <<frames, heap, shadow, writes, iovars, rdvars, wrvars>>

\* ts[i] for the ints of the Timestep's range and the first one past each end.
get_atom ==
    \E f \in DOMAIN frames : \E i \in -(frames[f].numatoms + 1)..frames[f].numatoms :
        Query("get_atom", f, i, Timestep__getitem__(frames[f], heap, [type |-> "int", val |-> i]))

\* Slices, index arrays and an index of another type.
RangeArgs ==
    {[type |-> "slice", start |-> <<1>>, stop |-> <<>>, step |-> <<>>],
     [type |-> "slice", start |-> <<>>, stop |-> <<-1>>, step |-> <<2>>]}
    \cup {[type |-> "ndarray", idx |-> x] : x \in {<<-1, 0>>, <<4>>}}
    \cup {[type |-> "str"]}

get_range ==
    \E f \in DOMAIN frames : \E a \in RangeArgs :
        Query("get_range", f, a, Timestep__getitem__(frames[f], heap, a))

length ==
    \E f \in DOMAIN frames :
        Query("length", f, <<>>, Result("ok", Timestep__len__(frames[f])))

iterate ==
    \E f \in DOMAIN frames :
        Query("iterate", f, <<>>, Timestep__iter__(frames[f], heap))

get_dimensions ==
    \E f \in DOMAIN frames :
        Query("dimensions", f, <<>>, Result("ok", dimensions(frames[f], heap)))

\* The translations applied in place to ts._pos.
Shifts == {<<1, 2, 3>>}

\* a += d for a 3-vector d: every row translated, in the same array object;
\* numpy refuses (ValueError) when the rows are not as long as d.
numpy_iadd(h, id, d) ==
    IF h[id].shape[2] # Len(d)
    THEN [kind |-> "ValueError", heap |-> h]
    ELSE [kind |-> "ok",
          heap |-> [h EXCEPT ![id].data =
                       [i \in 1..Len(@) |-> [j \in 1..Len(d) |-> @[i][j] + d[j]]]]]

\* ts._pos += d, as the fitting script does on the Reader's Timestep.
translate_pos ==
    /\ writes < MaxWrites
    /\ \E f \in DOMAIN frames : \E d \in Shifts :
        LET r == numpy_iadd(heap, frames[f]._pos, d)
        IN /\ heap' = r.heap
           /\ shadow' = [shadow EXCEPT ![f] = Content(frames[f], r.heap)]
           /\ ret' = [op |-> "translate_pos", f |-> f, arg |-> d, kind |-> r.kind,
                      value |-> <<>>]
    /\ writes' = writes + 1
    /\ UNCHANGED <<frames, iovars, rdvars, wrvars>>

\* The unit cell a codec stores, in the storage order [A, alpha, B, beta, gamma, C].
UnitCells == {<<1, 2, 3, 4, 5, 6>>}

\* A codec reads a frame into the Timestep: it fills _unitcell in place and
\* sets the frame number.
read_frame ==
    /\ writes < MaxWrites
    /\ \E f \in DOMAIN frames : \E cell \in UnitCells :
        /\ heap' = [heap EXCEPT ![frames[f]._unitcell].data = cell]
        /\ frames' = [frames EXCEPT ![f].frame = @ + 1]
        /\ shadow' = [shadow EXCEPT ![f] = Content(frames'[f], heap')]
        /\ ret' = [op |-> "read_frame", f |-> f, arg |-> cell, kind |-> "ok",
                   value |-> <<>>]
    /\ writes' = writes + 1
    /\ UNCHANGED <<iovars, rdvars, wrvars>>


\* ------------------------------------------------------------------ IObase

\* Greatest common divisor of two naturals.
RECURSIVE GCD(_, _)
GCD(a, b) == IF b = 0 THEN a ELSE GCD(b, a % b)

Abs(a) == IF a < 0 THEN -a ELSE a

\* The fraction n/d (d # 0) in lowest terms with a positive denominator.
Frac(n, d) ==
    LET g == GCD(Abs(n), Abs(d))
        sg == IF d < 0 THEN -1 ELSE 1
    IN <<sg * (n \div g), sg * (d \div g)>>

RMul(p, q) == Frac(p[1] * q[1], p[2] * q[2])

RDiv(p, q) == Frac(p[1] * q[2], p[2] * q[1])

\* MDAnalysis.core.units.conversion_factor: how many of each unit make one
\* base unit (Angstrom, ps).
conversion_factor ==
    [length |-> [Angstrom |-> <<1, 1>>, nm |-> <<1, 10>>],
     time |-> [ps |-> <<1, 1>>, fs |-> <<1000, 1>>]]

\* units.get_conversion_factor(unit_type, u1, u2): the factor from u1 to u2.
get_conversion_factor(unit_type, u1, u2) ==
    LET table == conversion_factor[unit_type]
    IN IF u1 \notin DOMAIN table \/ u2 \notin DOMAIN table
       THEN [kind |-> "UnknownUnit", f |-> <<0, 1>>]
       ELSE [kind |-> "ok", f |-> RDiv(table[u2], table[u1])]

\* x *= f on an array: every element scaled, in the same array object.
numpy_imul(arrs, id, f) == [arrs EXCEPT ![id] = [k \in 1..Len(@) |-> RMul(@[k], f)]]

\* What a conversion hands back: the arrays, the time, the value returned.
Converted(kind, arrs, value) == [kind |-> kind, arrays |-> arrs, value |-> value]

\* Lines 101-105: IObase.convert_pos_from_native.
convert_pos_from_native(self, arrs, x) ==
    LET c == get_conversion_factor("length", self.units.length, self.flags.length_unit)
    IN IF c.kind # "ok" THEN Converted(c.kind, arrs, <<>>)
       ELSE Converted("ok", numpy_imul(arrs, x, c.f), x)

\* Lines 107-111: the first def of IObase.convert_time_from_native.
convert_time_from_native(self, t) ==
    LET c == get_conversion_factor("time", self.units.time, self.flags.time_unit)
    IN IF c.kind # "ok" THEN [kind |-> c.kind, value |-> <<>>]
       ELSE [kind |-> "ok", value |-> RMul(t, c.f)]

\* convert_pos_to_native with the arguments of the lookup in the order of
\* convert_pos_from_native.
convert_pos_to_native_SameDirection(self, arrs, x) ==
    convert_pos_from_native(self, arrs, x)

\* Lines 113-117: IObase.convert_pos_to_native.
convert_pos_to_native(self, arrs, x) ==
    LET c == get_conversion_factor("length", self.flags.length_unit, self.units.length)
    IN IF c.kind # "ok" THEN Converted(c.kind, arrs, <<>>)
       ELSE Converted("ok", numpy_imul(arrs, x, c.f), x)

\* Lines 119-123: the second def of the same name, convert_time_from_native,
\* whose body converts from base units to native units.
convert_time_from_native_2(self, t) ==
    LET c == get_conversion_factor("time", self.flags.time_unit, self.units.time)
    IN IF c.kind # "ok" THEN [kind |-> c.kind, value |-> <<>>]
       ELSE [kind |-> "ok", value |-> RMul(t, c.f)]

\* Lines 101-126: the defs of the class body of IObase, in source order.  A
\* later def of a name rebinds it.
IObaseBody ==
    <<"convert_pos_from_native", "convert_time_from_native", "convert_pos_to_native",
      "convert_time_from_native", "close_trajectory">>

\* The def an attribute lookup of name on an IObase finds: the last one of
\* that name in the class body, 0 when there is none (AttributeError).
Resolve(name) ==
    LET defs == {k \in DOMAIN IObaseBody : IObaseBody[k] = name}
    IN IF defs = {} THEN 0 ELSE CHOOSE k \in defs : \A j \in defs : j <= k

\* self.<name>(x) for a coordinate array x.
CallOnArray(name, self, arrs, x) ==
    LET k == Resolve(name)
    IN CASE k = 1 -> convert_pos_from_native(self, arrs, x)
         [] k = 3 -> convert_pos_to_native(self, arrs, x)
         [] OTHER -> Converted("AttributeError", arrs, <<>>)

\* self.<name>(t) for a time t.
CallOnTime(name, self, t) ==
    LET k == Resolve(name)
    IN CASE k = 2 -> convert_time_from_native(self, t)
         [] k = 4 -> convert_time_from_native_2(self, t)
         [] OTHER -> [kind |-> "AttributeError", value |-> <<>>]

\* Native units of a stream (None is the class default of line 98) and the
\* base units of the flags.
LengthUnits == {"Angstrom", "nm"}

TimeUnits == {"ps", "fs"}

IdleUnits ==
    /\ io = [units |-> [length |-> "None", time |-> "None"],
             flags |-> [length_unit |-> "Angstrom", time_unit |-> "ps"]]
    /\ arrays = <<>>
    /\ tval = <<0, 1>>
    /\ ulog = <<>>

InitUnits ==
    /\ io \in [units : [length : LengthUnits \cup {"None"}, time : TimeUnits \cup {"None"}],
               flags : [length_unit : LengthUnits, time_unit : TimeUnits]]
    /\ arrays = << <<<<1, 1>>, <<-3, 2>>, <<0, 1>>>> >>
    /\ tval = <<2, 1>>
    /\ ulog = <<>>

\* A conversion of the coordinate array: x = self.<name>(x).
ConvertArray(op, name) ==
    /\ LET r == CallOnArray(name, io, arrays, 1)
       IN /\ arrays' = r.arrays
          /\ ulog' = Append(ulog, [op |-> op, kind |-> r.kind, arg |-> 1, value |-> r.value,
                                   before |-> arrays[1], after |-> r.arrays[1]])
    /\ UNCHANGED <<io, tval, tsvars, rdvars, wrvars>>

\* A conversion of the time: t = self.<name>(t); t is unchanged if it raises.
ConvertTime(op, name) ==
    /\ LET r == CallOnTime(name, io, tval)
       IN /\ tval' = IF r.kind = "ok" THEN r.value ELSE tval
          /\ ulog' = Append(ulog, [op |-> op, kind |-> r.kind, arg |-> 0, value |-> r.value,
                                   before |-> tval, after |-> tval'])
    /\ UNCHANGED <<io, arrays, tsvars, rdvars, wrvars>>

position_from_native ==
    /\ Len(ulog) < MaxCalls
    /\ ConvertArray("position_from_native", "convert_pos_from_native")

position_to_native ==
    /\ Len(ulog) < MaxCalls
    /\ ConvertArray("position_to_native", "convert_pos_to_native")

time_from_native ==
    /\ Len(ulog) < MaxCalls
    /\ ConvertTime("time_from_native", "convert_time_from_native")

time_to_native ==
    /\ Len(ulog) < MaxCalls
    /\ ConvertTime("time_to_native", "convert_time_to_native")

\* ------------------------------------------------------------------ Reader

\* What a Reader call hands back: the reader, the outcome, the frame number
\* of the Timestep returned (-1 when none is).
Outcome(r, kind, frame) == [reader |-> r, kind |-> kind, frame |-> frame]

\* The codec's _read_next_timestep: it reads the frame under the cursor into
\* the Timestep and moves on; past the last frame it reports the end.
read_next_timestep(r) ==
    IF r.cursor < r.numframes
    THEN Outcome([r EXCEPT !.state = "Positioned", !.ts_frame = r.cursor,
                           !.cursor = r.cursor + 1],
                 "ok", r.cursor)
    ELSE Outcome([r EXCEPT !.state = "Exhausted"], "EndOfTrajectory", -1)

\* The codec's __getitem__(frame): it positions the stream at that frame, so
\* that the next read delivers it.
Reader__getitem__(r, frame) ==
    IF ~r.seekable THEN Outcome(r, "SeekError", -1)
    ELSE IF frame < 0 \/ frame >= r.numframes THEN Outcome(r, "IndexOutOfRange", -1)
    ELSE Outcome([r EXCEPT !.state = "Positioned", !.cursor = frame], "ok", frame)

\* Lines 139-140: Reader.__len__.
Reader__len__(r) == r.numframes

\* Lines 142-144: Reader.next.
Reader_next(r) == read_next_timestep(r)

\* rewind that leaves the stream where it is.
Reader_rewind_NoSeek(r) == Outcome(r, "ok", -1)

\* Lines 146-148: Reader.rewind; it returns nothing.
Reader_rewind(r) ==
    LET o == Reader__getitem__(r, 0)
    IN Outcome(o.reader, o.kind, -1)

IdleReader ==
    /\ reader = [numframes |-> 0, seekable |-> TRUE, cursor |-> 0, state |-> "Unopened",
                 ts_frame |-> -1]
    /\ rlog = <<>>

InitReader ==
    /\ \E n \in 0..MaxNumframes, s \in BOOLEAN :
        reader = [numframes |-> n, seekable |-> s, cursor |-> 0, state |-> "Unopened",
                  ts_frame |-> -1]
    /\ rlog = <<>>

\* A Reader call, logged with its outcome and the state it leaves.
ReaderCall(op, o) ==
    /\ reader' = o.reader
    /\ rlog' = Append(rlog, [op |-> op, kind |-> o.kind, frame |-> o.frame,
                             state |-> o.reader.state])
    /\ UNCHANGED <<tsvars, iovars, wrvars>>

next ==
    /\ Len(rlog) < MaxReaderCalls
    /\ ReaderCall("next", Reader_next(reader))

rewind ==
    /\ Len(rlog) < MaxReaderCalls
    /\ ReaderCall("rewind", Reader_rewind(reader))

\* ------------------------------------------------------------------ Writer

\* Lines 125-126: IObase.close_trajectory, which does nothing.
close_trajectory(w) == w

\* The codec's close_trajectory: it releases the resource if it is held.
codec_close_trajectory(w) ==
    LET c == [w EXCEPT !.closeCalls = @ + 1]
    IN IF c.open
       THEN close_trajectory([c EXCEPT !.open = FALSE, !.released = @ + 1])
       ELSE close_trajectory(c)

\* The codec's write_next_timestep: one frame into the open sink.
write_next_timestep(w) ==
    IF w.open
    THEN [writer |-> [w EXCEPT !.written = @ + 1], kind |-> "ok"]
    ELSE [writer |-> w, kind |-> "IOError"]

\* __del__ that releases nothing.
Writer__del__NoClose(w) == w

\* Lines 166-167: Writer.__del__.
Writer__del__(w) == codec_close_trajectory(w)

IdleWriter ==
    /\ writer = [open |-> TRUE, released |-> 0, written |-> 0, closeCalls |-> 0,
                 explicit |-> 0, dropped |-> FALSE, numatoms |-> 0]
    /\ wret = [op |-> "none", kind |-> "ok", wasOpen |-> TRUE, releasedBefore |-> 0,
               callsBefore |-> 0]

InitWriter ==
    /\ \E n \in 1..MaxAtoms :
        writer = [open |-> TRUE, released |-> 0, written |-> 0, closeCalls |-> 0,
                  explicit |-> 0, dropped |-> FALSE, numatoms |-> n]
    /\ wret = [op |-> "none", kind |-> "ok", wasOpen |-> TRUE, releasedBefore |-> 0,
               callsBefore |-> 0]

WriterRet(op, kind) ==
    [op |-> op, kind |-> kind, wasOpen |-> writer.open, releasedBefore |-> writer.released,
     callsBefore |-> writer.closeCalls]

\* writer.write(frame), while the Writer is alive.
write ==
    /\ ~writer.dropped
    /\ writer.written < MaxWritten
    /\ LET r == write_next_timestep(writer)
       IN /\ writer' = r.writer
          /\ wret' = WriterRet("write", r.kind)
    /\ UNCHANGED <<tsvars, iovars, rdvars>>

\* An explicit close, before the Writer is discarded or, on the sink it
\* wrapped, after.
close ==
    /\ writer.explicit < MaxCloses
    /\ writer' = [codec_close_trajectory(writer) EXCEPT !.explicit = @ + 1]
    /\ wret' = WriterRet("close", "ok")
    /\ UNCHANGED <<tsvars, iovars, rdvars>>

\* The Writer is discarded: __del__ runs, once.
discard ==
    /\ ~writer.dropped
    /\ writer' = [Writer__del__(writer) EXCEPT !.dropped = TRUE]
    /\ wret' = WriterRet("discard", "ok")
    /\ UNCHANGED <<tsvars, iovars, rdvars>>

\* --------------------------------------------------------- specifications

Init == InitTimestep /\ IdleUnits /\ IdleReader /\ IdleWriter

Next ==
    \/ new_by_atom_count
    \/ new_from_matrix
    \/ copy
    \/ get_atom
    \/ get_range
    \/ length
    \/ iterate
    \/ get_dimensions
    \/ translate_pos
    \/ read_frame

\* Timestep: construction, indexing, iteration, copies and in-place writes.
Spec == Init /\ [][Next]_vars

IdleTimestep == InitTimestep

InitIO == IdleTimestep /\ InitUnits /\ IdleReader /\ IdleWriter

NextIO ==
    \/ position_from_native
    \/ position_to_native
    \/ time_from_native
    \/ time_to_native

\* IObase: the unit conversions of a stream.
SpecIO == InitIO /\ [][NextIO]_vars

InitRd == IdleTimestep /\ IdleUnits /\ InitReader /\ IdleWriter

NextRd ==
    \/ next
    \/ rewind

\* Reader: next and rewind over a codec.
SpecReader == InitRd /\ [][NextRd]_vars

InitWr == IdleTimestep /\ IdleUnits /\ IdleReader /\ InitWriter

NextWr ==
    \/ write
    \/ close
    \/ discard

\* Writer: writes, explicit closes and the discard of the Writer.
SpecWriter == InitWr /\ [][NextWr]_vars

\* ------------------------------------------------------------------ claims

\* The Timestep the last call was made on.
LastTs == frames[ret.f]

\* C1: every Timestep's position buffer has shape (atom_count, 3), where
\* atom_count is what len() returns, and atom_count is the one it was built
\* with.
C1_PositionsShape ==
    \A f \in DOMAIN frames :
        /\ heap[frames[f]._pos].shape = <<Timestep__len__(frames[f]), 3>>
        /\ Timestep__len__(frames[f]) = shadow[f].numatoms

\* C2: a copy holds the positions, unit cell, frame number and atom count its
\* source held when it was made, and from then on every Timestep holds what
\* it held when built, changed only by the writes made to that Timestep.
C2_CopyIndependent ==
    /\ (ret.op = "copy" /\ ret.kind = "ok") =>
            Content(frames[ret.f], heap) = Content(frames[ret.arg], heap)
    /\ \A f \in DOMAIN frames : Content(frames[f], heap) = shadow[f]

\* C2's case: a Timestep and its copy, one of them written after the copy was
\* made, now hold different positions or unit cells.
C2_Witness ==
    /\ Len(frames) >= 2
    /\ ret.op \in {"translate_pos", "read_frame"}
    /\ ret.kind = "ok"
    /\ \E f, g \in DOMAIN frames : f # g /\ Content(frames[f], heap) # Content(frames[g], heap)

\* C6: ts[i] on a Timestep of n atoms returns, for i in [-n, n-1], the
\* 3-vector of row i (i >= 0) or n + i (i < 0), and raises IndexError for
\* every other i.
C6_GetAtom ==
    ret.op = "get_atom" =>
        LET n == Timestep__len__(LastTs)
            i == ret.arg
            a == IF i < 0 THEN n + i ELSE i
            arr == heap[LastTs._pos]
        IN IF -n <= i /\ i <= n - 1
           THEN /\ ret.kind = "ok"
                /\ a < arr.shape[1]
                /\ ret.value = arr.data[a + 1]
                /\ Len(ret.value) = 3
           ELSE ret.kind = "IndexError"

\* C7: iterating a Timestep of n atoms yields exactly n items, the k-th
\* being ts[k], k = 0..n-1.
C7_Iterate ==
    ret.op = "iterate" =>
        LET n == Timestep__len__(LastTs)
        IN /\ ret.kind = "ok"
           /\ Len(ret.value) = n
           /\ \A k \in 0..(n - 1) :
                LET item == Timestep__getitem__(LastTs, heap, [type |-> "int", val |-> k])
                IN item.kind = "ok" /\ ret.value[k + 1] = item.value

\* A Timestep whose buffer has the shape its atom count says.
WellShaped(ts) == heap[ts._pos].shape = <<ts.numatoms, 3>>

\* C6 and C7 on the Timesteps whose buffer has shape (atom_count, 3).
WellShapedIndexing ==
    (ret.op \in {"get_atom", "iterate"} /\ WellShaped(LastTs)) => C6_GetAtom /\ C7_Iterate

\* C8: Timestep(n) for an int n >= 0 is a Timestep of n atoms, frame 0, n
\* rows of three zeros and a unit cell of six zeros; for a negative int or a
\* fractional number it raises ValueError and no Timestep exists.
C8_NewByAtomCount ==
    ret.op = "new_by_atom_count" =>
        LET a == ret.arg
        IN /\ (a.type = "int" /\ a.val >= 0) =>
                /\ ret.kind = "ok"
                /\ Len(frames) = 1
                /\ ret.f = 1
                /\ Timestep__len__(frames[1]) = a.val
                /\ frames[1].frame = 0
                /\ heap[frames[1]._pos] =
                        [shape |-> <<a.val, 3>>, data |-> [k \in 1..a.val |-> <<0, 0, 0>>]]
                /\ heap[frames[1]._unitcell].data = <<0, 0, 0, 0, 0, 0>>
           /\ ((a.type = "int" /\ a.val < 0) \/ (a.type = "float" /\ a.val[2] # 1)) =>
                /\ ret.kind = "ValueError"
                /\ frames = <<>>

\* C8's case: Timestep(2) has just been built.
C8_Witness ==
    /\ ret.op = "new_by_atom_count"
    /\ ret.kind = "ok"
    /\ Len(frames) = 1
    /\ frames[1].numatoms = 2

\* C9: dimensions of a unit cell stored as [u0, u1, u2, u3, u4, u5] is
\* [u0, u2, u5, u1, u3, u4], so [1,2,3,4,5,6] gives [1,3,6,2,4,5], and the
\* stored unit cell is what it was before the call.
C9_Dimensions ==
    ret.op = "dimensions" =>
        LET u == heap[LastTs._unitcell].data
        IN /\ ret.kind = "ok"
           /\ ret.value = <<u[1], u[3], u[6], u[2], u[4], u[5]>>
           /\ (u = <<1, 2, 3, 4, 5, 6>> => ret.value = <<1, 3, 6, 2, 4, 5>>)
           /\ u = shadow[ret.f].unitcell

\* C9's case: dimensions was read from the stored unit cell [1,2,3,4,5,6].
C9_Witness ==
    /\ ret.op = "dimensions"
    /\ heap[LastTs._unitcell].data = <<1, 2, 3, 4, 5, 6>>
    /\ ret.value = <<1, 3, 6, 2, 4, 5>>

\* The factor from unit u1 to unit u2 of a quantity, from the table.
Factor(unit_type, u1, u2) ==
    RDiv(conversion_factor[unit_type][u2], conversion_factor[unit_type][u1])

\* C5: with a known native time unit, time_from_native(t) is t times the
\* factor from the native unit to the base unit, and time_to_native(t) can be
\* called and is t times the factor from the base unit to the native unit.
C5_TimeBothDirections ==
    \A k \in DOMAIN ulog :
        LET e == ulog[k]
        IN /\ (e.op = "time_from_native" /\ io.units.time \in TimeUnits) =>
                /\ e.kind = "ok"
                /\ e.after = RMul(e.before, Factor("time", io.units.time, io.flags.time_unit))
           /\ (e.op = "time_to_native" /\ io.units.time \in TimeUnits) =>
                /\ e.kind = "ok"
                /\ e.after = RMul(e.before, Factor("time", io.flags.time_unit, io.units.time))

\* C10: position_from_native and position_to_native each scale the array
\* they are given in place, by the factor of their direction, and return
\* that array; position_to_native right after position_from_native leaves
\* the array holding what it held before the two calls.
C10_PositionRoundTrip ==
    /\ \A k \in DOMAIN ulog :
        LET e == ulog[k]
            f == IF e.op = "position_from_native"
                 THEN Factor("length", io.units.length, io.flags.length_unit)
                 ELSE Factor("length", io.flags.length_unit, io.units.length)
        IN (e.op \in {"position_from_native", "position_to_native"}
                /\ io.units.length \in LengthUnits) =>
            /\ e.kind = "ok"
            /\ e.value = e.arg
            /\ Len(arrays) = 1
            /\ e.after = [j \in 1..Len(e.before) |-> RMul(e.before[j], f)]
    /\ \A k \in 1..(Len(ulog) - 1) :
        (ulog[k].op = "position_from_native" /\ ulog[k].kind = "ok"
                /\ ulog[k + 1].op = "position_to_native") =>
            /\ ulog[k + 1].kind = "ok"
            /\ ulog[k + 1].after = ulog[k].before

\* C10's case: the two calls were made, one after the other, between units
\* that differ.
C10_Witness ==
    /\ Len(ulog) = 2
    /\ ulog[1].op = "position_from_native"
    /\ ulog[1].kind = "ok"
    /\ ulog[1].after # ulog[1].before
    /\ ulog[2].op = "position_to_native"
    /\ ulog[2].kind = "ok"

\* The first k Reader calls were all next().
AllNext(k) == k <= Len(rlog) /\ \A j \in 1..k : rlog[j].op = "next"

\* C3: from Unopened, the first N calls of next() return frames 0..N-1 in
\* turn, the call after them reports EndOfTrajectory and leaves the Reader
\* Exhausted, and on a seekable trajectory with a frame 0, next() right
\* after rewind() returns frame 0.
C3_ReaderScenario ==
    LET N == Reader__len__(reader)
    IN /\ \A k \in 1..Len(rlog) :
            (AllNext(k) /\ k <= N) => (rlog[k].kind = "ok" /\ rlog[k].frame = k - 1)
       /\ AllNext(N + 1) =>
            (rlog[N + 1].kind = "EndOfTrajectory" /\ rlog[N + 1].state = "Exhausted")
       /\ \A k \in 1..(Len(rlog) - 1) :
            (reader.seekable /\ N >= 1 /\ rlog[k].op = "rewind" /\ rlog[k + 1].op = "next") =>
                /\ rlog[k].kind = "ok"
                /\ rlog[k + 1].kind = "ok"
                /\ rlog[k + 1].frame = 0

\* C3's case: three frames read, the end reported, then rewind and next.
C3_Witness ==
    /\ reader.numframes = 3
    /\ Len(rlog) = 6
    /\ AllNext(4)
    /\ rlog[4].kind = "EndOfTrajectory"
    /\ rlog[5].op = "rewind"
    /\ rlog[6].op = "next"
    /\ rlog[6].frame = 0

\* C4: the resource is released at most once, and exactly once when the
\* Writer has been discarded; the discard calls close once, and a close of a
\* Writer already closed, explicit or by the discard, succeeds and releases
\* nothing.
C4_ReleasedOnce ==
    /\ writer.released <= 1
    /\ writer.dropped => writer.released = 1
    /\ wret.op = "discard" => writer.closeCalls = wret.callsBefore + 1
    /\ (wret.op = "discard" /\ wret.wasOpen) => writer.released = wret.releasedBefore + 1
    /\ (wret.op \in {"close", "discard"} /\ ~wret.wasOpen) =>
            (wret.kind = "ok" /\ writer.released = wret.releasedBefore)

\* C4's case: five frames written, the open Writer discarded, then close
\* called again.
C4_Witness ==
    /\ writer.written = 5
    /\ writer.dropped
    /\ writer.closeCalls = 2
    /\ writer.explicit = 1
    /\ wret.op = "close"
    /\ ~wret.wasOpen

====
